---- MODULE Spec2Model ----
(***************************************************************************)
(* Multi-sig session manager of frontend-aiken:                            *)
(*   lib/server/validators/multi_sig_wallet/multi-sig-session.ts           *)
(*     (session store in sessionStorage, followed in the same file by the  *)
(*      unlock flow: initiateUnlock / coSign / submitUnlock)               *)
(*   components/validators/multi-sig-wallet/hooks/useMultisig.ts           *)
(*     (React hook driving the flow and mirroring the store in `step`)     *)
(*                                                                         *)
(* One browser tab: one sessionStorage slot, one hook instance, and a few  *)
(* asynchronous calls of the hook's callbacks that may overlap at their    *)
(* await points (JavaScript runs each synchronous segment atomically).     *)
(*                                                                         *)
(* Beside it, two components of the same application:                      *)
(*   the signature-session API route (an in-memory Map on the server with  *)
(*     create / sign / GET / DELETE and a periodic cleanup), and           *)
(*   the lock form LockMultiSig with the lock API route                    *)
(*     app/api/validators/multi-sig-wallet/route.ts.                       *)
(***************************************************************************)
EXTENDS Integers, Sequences, FiniteSets, TLC

\* ---------------------------------------------------------------- bounds
\* number of session ids crypto.randomUUID() hands out in one run
MaxSessions == 1
\* number of clock advances in one run
MaxTicks == 1
\* largest threshold a datum carries
MaxThreshold == 3
\* number of delayed clearSession calls pending at one time
MaxTimers == 1
\* longest collectedSigners list of a hand-written import payload
MaxForgedLen == 2
\* number of signature sessions the server creates in one run
MaxServerSessions == 1
\* longest owner list of the lock form and of a request to the lock route
MaxOwners == 3

\* ------------------------------------------------------- program constants
SESSION_TTL_MS == 600000
GRACE_MS == 3000
\* SESSION_TTL of the signature-session route
SESSION_TTL == 600000

\* key hashes of the wallets that take part; the datum lists Owners
Owners == {"A", "B", "C"}
Pkhs == Owners
\* wallets that start an unlock, and the signingOwners lists they select
Initiators == {"A", "C"}
SigningChoices == {{"A"}, {"A", "B"}, {"A", "B", "C"}}
\* a signingOwners list that names "X", a key hash the datum does not list
ForeignChoices == {{"A", "X"}}
\* an entry of signingOwners that is not a 56-character key hash, and a
\* signingOwners list that holds it
Malformed == "short"
MalformedChoices == {{"A", Malformed}}
\* overlapping asynchronous calls of the hook's callbacks
Procs == {"p1", "p2"}
Thresholds == 1..MaxThreshold

\* id of a session that was created in another tab
ForeignId == 0

NoTxHash == "none"
TxHashes == {"h1"}

VARIABLES
    datumThreshold, \* threshold in the datum of the script UTxO being unlocked
    store,        \* sessionStorage[SESSION_KEY]: <<>> or <<session>>
    now,          \* Date.now()
    ticks,        \* clock advances so far
    nextId,       \* next session id of crypto.randomUUID()
    pc,           \* per call: "idle" | "initiate" | "cosign" | "submit"
    loc,          \* per call: the locals that survive the await
    step,         \* hook state.step
    timerOn,      \* hook timerRef.current # null
    graceTimers,  \* due times of the setTimeout(clearSession, 3000) calls
    clipboard,    \* navigator.clipboard: <<>> or <<payload>>
    last,         \* the operation that ran last and how it ended
    signatureSessions, \* the server's Map: session id -> SignatureSession
    sessionCount, \* number of session ids the server has generated
    formOwners,   \* LockMultiSig state: owners
    formThreshold \* LockMultiSig state: threshold

serverVars == <<signatureSessions, sessionCount>>

formVars == <<formOwners, formThreshold>>

\* the state of the unlock flow in the browser tab
tabVars == <<datumThreshold, store, nextId, pc, loc, step, timerOn, graceTimers, clipboard>>

vars == <<datumThreshold, store, now, ticks, nextId, pc, loc, step, timerOn, graceTimers,
          clipboard, last, signatureSessions, sessionCount, formOwners, formThreshold>>

\* ------------------------------------------------------------ transactions
\* A transaction is opaque to the session manager; what matters here is the
\* set of key hashes declared with requiredSignerHash and the witnesses.
UnsignedTx(signers) == [req |-> signers, wit |-> {}]

\* ownerPkh.length === 56
HasKeyHashLength(ownerPkh) == ownerPkh # Malformed

\* buildUnlockTransaction's effectiveSigners.forEach: requiredSignerHash is
\* called for the entries of 56 characters only
DeclaredSigners(effectiveSigners) ==
    {ownerPkh \in effectiveSigners : HasKeyHashLength(ownerPkh)}

\* wallet.signTx(tx, true): the same transaction with this wallet's witness
SignTx(tx, w) == [tx EXCEPT !.wit = @ \cup {w}]

Range(s) == {s[i] : i \in 1..Len(s)}

Includes(s, x) == \E i \in 1..Len(s) : s[i] = x

\* ------------------------------------------------------------- TTL helpers
isExpired(session, t) == t > session.expiresAt

getRemainingMs(session, t) ==
    IF session.expiresAt - t > 0 THEN session.expiresAt - t ELSE 0

readSessionPurgesAtExpiry(st, t) ==
    IF st = <<>> THEN <<>>
    ELSE IF t >= st[1].expiresAt THEN <<>>
    ELSE st

\* --------------------------------------------------------- storage helpers
\* readSession returns null for an absent or expired session and removes an
\* expired one; the slot after the call equals the value returned.
readSession(st, t) ==
    IF st = <<>> THEN <<>>
    ELSE IF isExpired(st[1], t) THEN <<>>
    ELSE st

\* ------------------------------------------------------------- session API
\* createSession: the session the initiator writes
createSession(unsignedTx, partialTx, threshold, initiatorPkh, id, t) ==
    [sessionId |-> id,
     unsignedTx |-> unsignedTx,
     partialTx |-> partialTx,
     collectedSigners |-> <<initiatorPkh>>,
     threshold |-> threshold,
     status |-> "pending",
     createdAt |-> t,
     expiresAt |-> t + SESSION_TTL_MS,
     txHash |-> NoTxHash]

\* applySignature without its "already signed" guard
applySignatureNoDuplicateGuard(st, t, signerPkh, newPartialTx) ==
    LET r == readSession(st, t) IN
    IF r = <<>> THEN [store |-> r, result |-> "NoActiveSession"]
    ELSE IF r[1].status # "pending" THEN [store |-> r, result |-> "InvalidState"]
    ELSE LET updatedCollected == Append(r[1].collectedSigners, signerPkh)
             thresholdMet == Len(updatedCollected) >= r[1].threshold
         IN [store |-> <<[r[1] EXCEPT !.partialTx = newPartialTx,
                                      !.collectedSigners = updatedCollected,
                                      !.status = IF thresholdMet THEN "ready"
                                                 ELSE "pending"]>>,
             result |-> "ok"]

applySignatureSignedGuardFirst(st, t, signerPkh, newPartialTx) ==
    LET r == readSession(st, t) IN
    IF r = <<>> THEN [store |-> r, result |-> "NoActiveSession"]
    ELSE IF Includes(r[1].collectedSigners, signerPkh)
         THEN [store |-> r, result |-> "AlreadySigned"]
    ELSE IF r[1].status # "pending" THEN [store |-> r, result |-> "InvalidState"]
    ELSE LET updatedCollected == Append(r[1].collectedSigners, signerPkh)
             thresholdMet == Len(updatedCollected) >= r[1].threshold
         IN [store |-> <<[r[1] EXCEPT !.partialTx = newPartialTx,
                                      !.collectedSigners = updatedCollected,
                                      !.status = IF thresholdMet THEN "ready"
                                                 ELSE "pending"]>>,
             result |-> "ok"]

\* applySignature: the slot after the call and how the call ended
applySignature(st, t, signerPkh, newPartialTx) ==
    LET r == readSession(st, t) IN
    IF r = <<>> THEN [store |-> r, result |-> "NoActiveSession"]
    ELSE IF r[1].status # "pending" THEN [store |-> r, result |-> "InvalidState"]
    ELSE IF Includes(r[1].collectedSigners, signerPkh)
         THEN [store |-> r, result |-> "AlreadySigned"]
    ELSE LET updatedCollected == Append(r[1].collectedSigners, signerPkh)
             thresholdMet == Len(updatedCollected) >= r[1].threshold
         IN [store |-> <<[r[1] EXCEPT !.partialTx = newPartialTx,
                                      !.collectedSigners = updatedCollected,
                                      !.status = IF thresholdMet THEN "ready"
                                                 ELSE "pending"]>>,
             result |-> "ok"]

\* markSubmitted: the slot after the call, and whether the delayed
\* clearSession was scheduled (it is not when there is no live session)
markSubmitted(st, t, txHash) ==
    LET r == readSession(st, t) IN
    IF r = <<>> THEN [store |-> r, scheduled |-> FALSE]
    ELSE [store |-> <<[r[1] EXCEPT !.status = "submitted", !.txHash = txHash]>>,
          scheduled |-> TRUE]

\* getSessionStatus: <<>> or the snapshot
getSessionStatus(st, t) ==
    LET r == readSession(st, t) IN
    IF r = <<>> THEN <<>>
    ELSE <<[signed |-> Len(r[1].collectedSigners),
            required |-> r[1].threshold,
            status |-> r[1].status,
            remainingMs |-> getRemainingMs(r[1], t),
            sessionId |-> r[1].sessionId]>>

\* exportSessionPayload: <<>> or the fields a co-signer needs
exportSessionPayload(st, t) ==
    LET r == readSession(st, t) IN
    IF r = <<>> THEN <<>>
    ELSE <<[sessionId |-> r[1].sessionId,
            partialTx |-> r[1].partialTx,
            collectedSigners |-> r[1].collectedSigners,
            threshold |-> r[1].threshold,
            expiresAt |-> r[1].expiresAt]>>

importSessionPayloadNoExpiryCheck(st, t, data) ==
    LET existing == readSession(st, t) IN
    IF existing # <<>> /\ existing[1].sessionId = data.sessionId
    THEN [store |-> existing, result |-> "existing"]
    ELSE [store |-> <<[sessionId |-> data.sessionId,
                       unsignedTx |-> data.partialTx,
                       partialTx |-> data.partialTx,
                       collectedSigners |-> data.collectedSigners,
                       threshold |-> data.threshold,
                       status |-> "pending",
                       createdAt |-> t,
                       expiresAt |-> data.expiresAt,
                       txHash |-> NoTxHash]>>,
          result |-> "ok"]

importSessionPayloadFreshTtl(st, t, data) ==
    IF t > data.expiresAt THEN [store |-> st, result |-> "ImportFailed"]
    ELSE LET existing == readSession(st, t) IN
         IF existing # <<>> /\ existing[1].sessionId = data.sessionId
         THEN [store |-> existing, result |-> "existing"]
         ELSE [store |-> <<[sessionId |-> data.sessionId,
                            unsignedTx |-> data.partialTx,
                            partialTx |-> data.partialTx,
                            collectedSigners |-> data.collectedSigners,
                            threshold |-> data.threshold,
                            status |-> "pending",
                            createdAt |-> t,
                            expiresAt |-> t + SESSION_TTL_MS,
                            txHash |-> NoTxHash]>>,
               result |-> "ok"]

importSessionPayloadAlwaysWrites(st, t, data) ==
    IF t > data.expiresAt THEN [store |-> st, result |-> "ImportFailed"]
    ELSE [store |-> <<[sessionId |-> data.sessionId,
                       unsignedTx |-> data.partialTx,
                       partialTx |-> data.partialTx,
                       collectedSigners |-> data.collectedSigners,
                       threshold |-> data.threshold,
                       status |-> "pending",
                       createdAt |-> t,
                       expiresAt |-> data.expiresAt,
                       txHash |-> NoTxHash]>>,
          result |-> "ok"]

\* importSessionPayload: the slot after the call and how the call ended
importSessionPayload(st, t, data) ==
    IF t > data.expiresAt THEN [store |-> st, result |-> "ImportFailed"]
    ELSE LET existing == readSession(st, t) IN
         IF existing # <<>> /\ existing[1].sessionId = data.sessionId
         THEN [store |-> existing, result |-> "existing"]
         ELSE [store |-> <<[sessionId |-> data.sessionId,
                            unsignedTx |-> data.partialTx,
                            partialTx |-> data.partialTx,
                            collectedSigners |-> data.collectedSigners,
                            threshold |-> data.threshold,
                            status |-> "pending",
                            createdAt |-> t,
                            expiresAt |-> data.expiresAt,
                            txHash |-> NoTxHash]>>,
               result |-> "ok"]

\* -------------------------------------------------------------------- hook
mapStatusToStep(sessionStatus, currentStep) ==
    IF sessionStatus = "submitted" THEN "submitted"
    ELSE IF sessionStatus = "ready" THEN "ready"
    ELSE IF sessionStatus = "pending"
         THEN IF currentStep = "cosigning" \/ currentStep = "submitting"
              THEN currentStep ELSE "pending"
    ELSE currentStep

\* syncFromStorage: the slot and the step after the call, and whether the
\* countdown timer was stopped
syncFromStorage(st, t, prevStep) ==
    LET status == getSessionStatus(st, t) IN
    IF status = <<>>
    THEN [store |-> <<>>,
          step |-> IF prevStep = "submitted" THEN "submitted" ELSE "idle",
          stop |-> TRUE]
    ELSE IF status[1].remainingMs = 0
    THEN [store |-> <<>>, step |-> "expired", stop |-> TRUE]
    ELSE [store |-> st,
          step |-> mapStatusToStep(status[1].status, prevStep),
          stop |-> FALSE]

NoLoc == [w |-> "-", tx |-> UnsignedTx({}), n |-> 0]

Op(name, who, result) == [op |-> name, who |-> who, result |-> result, data |-> <<>>]

Init ==
    /\ datumThreshold \in Thresholds
    /\ store = <<>>
    /\ now = 0
    /\ ticks = 0
    /\ nextId = 1
    /\ pc = [p \in Procs |-> "idle"]
    /\ loc = [p \in Procs |-> NoLoc]
    /\ step = "idle"
    /\ timerOn = FALSE
    /\ graceTimers = <<>>
    /\ clipboard = <<>>
    /\ last = Op("init", "-", "ok")
    /\ signatureSessions = <<>>
    /\ sessionCount = 0
    /\ formOwners = <<"", "", "">>
    /\ formThreshold = 2

\* The instants at which a comparison of the code against the clock changes
\* its outcome: the expiry of the stored session and of the copied payload
\* (Date.now() = expiresAt, then Date.now() > expiresAt) and the due times of
\* the delayed clearSession calls; on the server, the expiry of a signature
\* session (Date.now() = expiresAt, then expiresAt < Date.now()).
Instants ==
    UNION {{signatureSessions[id].expiresAt, signatureSessions[id].expiresAt + 1} :
               id \in DOMAIN signatureSessions}
    \cup
    (IF store = <<>> THEN {} ELSE {store[1].expiresAt, store[1].expiresAt + 1})
    \cup (IF clipboard = <<>> THEN {} ELSE {clipboard[1].expiresAt + 1})
    \cup {graceTimers[i].due : i \in 1..Len(graceTimers)}

\* the clock advances to one of the coming instants
Tick ==
    /\ \E t \in Instants : t > now /\ now' = t
    /\ ticks' = ticks + 1
    /\ last' = Op("tick", "-", "ok")
    /\ UNCHANGED <<serverVars, formVars, datumThreshold, store, nextId, pc, loc, step, timerOn, graceTimers, clipboard>>

\* ------------------------------------------- signature-session API route
\* what a request may carry: a session id, a signer address ("" is a missing
\* field), a signature, and the requiredSignatures of a create (0 is falsy)
ServerSessionIds == 1..MaxServerSessions
SignerAddresses == {"addrA", "addrB"}
WitnessSignatures == {"s1", "s2"}
RequiredChoices == {0, 1, 2}

\* session.expiresAt < Date.now()
sessionExpiredAtOrAfter(session, t) == session.expiresAt <= t

sessionExpired(session, t) == session.expiresAt < t

\* the Map without one key
DeleteSession(sessions, id) ==
    [k \in DOMAIN sessions \ {id} |-> sessions[k]]

\* cleanupExpiredSessions: every expired session is deleted
cleanupExpiredSessions(sessions, t) ==
    [k \in {id \in DOMAIN sessions : ~sessionExpired(sessions[id], t)} |-> sessions[k]]

signaturesPushAlways(signatures, signerAddress, signature, t) ==
    Append(signatures, [signerAddress |-> signerAddress, signature |-> signature,
                        timestamp |-> t])

\* action 'sign', from session.signatures.find to the push: the entry of a
\* signer that signed before is updated where it stands, a new one is appended
putSignature(signatures, signerAddress, signature, t) ==
    IF \E i \in 1..Len(signatures) : signatures[i].signerAddress = signerAddress
    THEN [i \in 1..Len(signatures) |->
            IF signatures[i].signerAddress = signerAddress
            THEN [signatures[i] EXCEPT !.signature = signature, !.timestamp = t]
            ELSE signatures[i]]
    ELSE Append(signatures, [signerAddress |-> signerAddress, signature |-> signature,
                             timestamp |-> t])

\* a response of the route: the HTTP status and the JSON body, kept together
\* with the session id the request named (0 when it named none)
Response(name, sessionId, who, status, body) ==
    [op |-> name, who |-> who, result |-> status, data |-> <<body, sessionId>>]

\* ---- POST, action 'create'
PostCreate(requiredSignatures) ==
    /\ IF requiredSignatures = 0
       THEN /\ last' = Response("create", 0, "-", "400", [error |-> "Missing required fields"])
            /\ UNCHANGED serverVars
       ELSE LET newSessionId == sessionCount + 1 IN
            /\ signatureSessions' =
                  [k \in DOMAIN signatureSessions \cup {newSessionId} |->
                     IF k = newSessionId
                     THEN [requiredSignatures |-> requiredSignatures,
                           signatures |-> <<>>,
                           createdAt |-> now,
                           expiresAt |-> now + SESSION_TTL]
                     ELSE signatureSessions[k]]
            /\ sessionCount' = sessionCount + 1
            /\ last' = Response("create", newSessionId, "-", "200", [sessionId |-> newSessionId])
    /\ UNCHANGED <<tabVars, formVars, now, ticks>>

\* ---- POST, action 'sign'
PostSign(sessionId, signerAddress, signature) ==
    /\ IF signerAddress = ""
       THEN /\ last' = Response("sign", sessionId, signerAddress, "400",
                                [error |-> "Missing required fields"])
            /\ UNCHANGED signatureSessions
       ELSE IF sessionId \notin DOMAIN signatureSessions
       THEN /\ last' = Response("sign", sessionId, signerAddress, "404",
                                [error |-> "Session not found or expired"])
            /\ UNCHANGED signatureSessions
       ELSE IF sessionExpired(signatureSessions[sessionId], now)
       THEN /\ signatureSessions' = DeleteSession(signatureSessions, sessionId)
            /\ last' = Response("sign", sessionId, signerAddress, "410", [error |-> "Session expired"])
       ELSE LET session == signatureSessions[sessionId]
                signatures == putSignature(session.signatures, signerAddress,
                                           signature, now)
            IN /\ signatureSessions' =
                     [signatureSessions EXCEPT ![sessionId].signatures = signatures]
               /\ last' = Response("sign", sessionId, signerAddress, "200",
                     [sessionId |-> sessionId,
                      signaturesCollected |-> Len(signatures),
                      requiredSignatures |-> session.requiredSignatures,
                      isComplete |-> Len(signatures) >= session.requiredSignatures])
    /\ UNCHANGED <<tabVars, formVars, now, ticks, sessionCount>>

\* ---- GET
Get(sessionId) ==
    /\ IF sessionId \notin DOMAIN signatureSessions
       THEN /\ last' = Response("get", sessionId, "-", "404", [error |-> "Session not found"])
            /\ UNCHANGED signatureSessions
       ELSE IF sessionExpired(signatureSessions[sessionId], now)
       THEN /\ signatureSessions' = DeleteSession(signatureSessions, sessionId)
            /\ last' = Response("get", sessionId, "-", "410", [error |-> "Session expired"])
       ELSE LET session == signatureSessions[sessionId] IN
            /\ last' = Response("get", sessionId, "-", "200",
                  [sessionId |-> sessionId,
                   session |-> session,
                   signaturesCollected |-> Len(session.signatures),
                   requiredSignatures |-> session.requiredSignatures,
                   isComplete |-> Len(session.signatures) >= session.requiredSignatures])
            /\ UNCHANGED signatureSessions
    /\ UNCHANGED <<tabVars, formVars, now, ticks, sessionCount>>

\* ---- DELETE
Delete(sessionId) ==
    /\ IF sessionId \notin DOMAIN signatureSessions
       THEN /\ last' = Response("delete", sessionId, "-", "404", [error |-> "Session not found"])
            /\ UNCHANGED signatureSessions
       ELSE /\ signatureSessions' = DeleteSession(signatureSessions, sessionId)
            /\ last' = Response("delete", sessionId, "-", "200", [sessionId |-> sessionId])
    /\ UNCHANGED <<tabVars, formVars, now, ticks, sessionCount>>

\* ---- setInterval(cleanupExpiredSessions, 60 * 1000)
Cleanup ==
    /\ signatureSessions' = cleanupExpiredSessions(signatureSessions, now)
    /\ last' = Response("cleanup", 0, "-", "ok", [deleted |-> DOMAIN signatureSessions
                                                           \ DOMAIN signatureSessions'])
    /\ UNCHANGED <<tabVars, formVars, now, ticks, sessionCount>>

\* ------------------------------------------- lock form and lock API route
\* what the user may type into an owner field: nothing, blanks, or an address
OwnerInputs == {"", " ", "addr1"}
\* what parseInt hands to handleThresholdChange, and what a request to the
\* route may carry as threshold
ThresholdInputs == -1..(MaxOwners + 1)

\* o.trim() is the empty string
IsBlank(o) == o \in {"", " "}

\* owners.filter(o => o.trim()).length
validOwnersCount(ownerList) ==
    Cardinality({i \in 1..Len(ownerList) : ~IsBlank(ownerList[i])})

NonBlank(o) == ~IsBlank(o)

validOwnersUnfiltered(ownerList) == ownerList

\* handleLockAssets: owners.filter(addr => addr.trim() !== '')
validOwners(ownerList) == SelectSeq(ownerList, NonBlank)

\* the threshold after the owner list changed
adjustThreshold(t, newOwners) ==
    IF t > validOwnersCount(newOwners) /\ validOwnersCount(newOwners) > 0
    THEN validOwnersCount(newOwners)
    ELSE t

Max(a, b) == IF a >= b THEN a ELSE b

Min(a, b) == IF a <= b THEN a ELSE b

\* ---- handleOwnerChange
HandleOwnerChange(index, value) ==
    /\ index \in 1..Len(formOwners)
    /\ LET newOwners == [formOwners EXCEPT ![index] = value] IN
       /\ formOwners' = newOwners
       /\ formThreshold' = adjustThreshold(formThreshold, newOwners)
    /\ last' = Op("handleOwnerChange", "-", "ok")
    /\ UNCHANGED <<tabVars, serverVars, now, ticks>>

\* ---- addOwner
AddOwner ==
    /\ formOwners' = Append(formOwners, "")
    /\ last' = Op("addOwner", "-", "ok")
    /\ UNCHANGED <<tabVars, serverVars, now, ticks, formThreshold>>

\* ---- removeOwner
RemoveOwner(index) ==
    /\ index \in 1..Len(formOwners)
    /\ IF Len(formOwners) > 1
       THEN LET newOwners == [i \in 1..(Len(formOwners) - 1) |->
                                 IF i < index THEN formOwners[i] ELSE formOwners[i + 1]]
            IN /\ formOwners' = newOwners
               /\ formThreshold' = adjustThreshold(formThreshold, newOwners)
       ELSE UNCHANGED formVars
    /\ last' = Op("removeOwner", "-", "ok")
    /\ UNCHANGED <<tabVars, serverVars, now, ticks>>

\* ---- the threshold field's onChange: handleThresholdChange(parseInt(..) || 1)
HandleThresholdChange(parsed) ==
    /\ LET value == IF parsed = 0 THEN 1 ELSE parsed
           maxThreshold == IF validOwnersCount(formOwners) > 0
                           THEN validOwnersCount(formOwners) ELSE 1
       IN formThreshold' = Max(1, Min(value, maxThreshold))
    /\ last' = Op("handleThresholdChange", "-", "ok")
    /\ UNCHANGED <<tabVars, serverVars, now, ticks, formOwners>>

\* ---- handleLockAssets up to the call of lockAssetsToMultiSig; data is what
\* the lock transaction is built from
HandleLockAssets(wallet, amountValid) ==
    /\ LET request == [owners |-> validOwners(formOwners), threshold |-> formThreshold]
           outcome == IF ~wallet THEN "NoWallet"
                      ELSE IF Len(request.owners) = 0 THEN "NoOwners"
                      ELSE IF formThreshold < 1 \/ formThreshold > Len(request.owners)
                           THEN "BadThreshold"
                      ELSE IF ~amountValid THEN "BadAmount"
                      ELSE "built"
       IN last' = [Op("handleLockAssets", "-", outcome) EXCEPT !.data = <<request>>]
    /\ UNCHANGED <<tabVars, serverVars, formVars, now, ticks>>

\* ---- lock API route, POST up to the call of buildLockTransaction; complete
\* says that the other required fields of the body are present
LockRoute(ownerList, t, complete) ==
    /\ LET outcome == IF ~complete \/ t = 0 THEN "400"
                      ELSE IF Len(ownerList) = 0 THEN "400"
                      ELSE IF t < 1 \/ t > Len(ownerList) THEN "400"
                      ELSE "built"
       IN last' = [Op("lockRoute", "-", outcome)
                     EXCEPT !.data = <<[owners |-> ownerList, threshold |-> t]>>]
    /\ UNCHANGED <<tabVars, serverVars, formVars, now, ticks>>

\* the owner lists a request to the route may carry: addresses, or a list
\* with an empty string in it
RouteOwnerLists ==
    UNION {[1..n -> {"addr1"}] : n \in 0..MaxOwners} \cup {<<"">>, <<"", "addr1">>}

\* hand-written payloads a user may paste instead of an exported one
ForgedSigners == {"A"}

ForgedLists ==
    UNION {[1..n -> ForgedSigners] : n \in 0..MaxForgedLen}

ForgedPayloads ==
    {[sessionId |-> ForeignId,
      partialTx |-> UnsignedTx(Owners),
      collectedSigners |-> cs,
      threshold |-> th,
      expiresAt |-> SESSION_TTL_MS] :
        cs \in ForgedLists, th \in {datumThreshold}}

InFlight(kind) == {q \in Procs : pc[q] = kind}

\* ---- hook.initiate -> initiateUnlock, up to its first await
InitiateBegin(p, w, so) ==
    /\ pc[p] = "idle"
    /\ LET r == readSession(store, now) IN
       /\ store' = r
       /\ IF r # <<>>
          THEN /\ step' = "error"
               /\ timerOn' = FALSE
               /\ last' = Op("initiate", w, "SessionAlreadyActive")
               /\ UNCHANGED <<pc, loc>>
          ELSE /\ step' = "building"
               /\ pc' = [pc EXCEPT ![p] = "initiate"]
               /\ loc' = [loc EXCEPT ![p] =
                             [w |-> w, tx |-> UnsignedTx(DeclaredSigners(so)),
                              n |-> Cardinality(so)]]
               /\ last' = Op("initiateBegin", w, "ok")
               /\ UNCHANGED timerOn
    /\ UNCHANGED <<serverVars, formVars, datumThreshold, now, ticks, nextId, graceTimers, clipboard>>

\* ---- initiateUnlock after the awaits: buildUnlockTransaction, signTx,
\*      createSession, then the hook's setState and startTimer
InitiateFinish(p) ==
    /\ pc[p] = "initiate"
    /\ pc' = [pc EXCEPT ![p] = "idle"]
    /\ loc' = [loc EXCEPT ![p] = NoLoc]
    /\ \/ /\ loc[p].n < datumThreshold
          /\ step' = "error"
          /\ timerOn' = FALSE
          /\ last' = Op("initiate", loc[p].w, "TooFewSigners")
          /\ UNCHANGED <<store, nextId>>
       \/ /\ loc[p].n >= datumThreshold
          /\ step' = "error"
          /\ timerOn' = FALSE
          /\ last' = Op("signTx", loc[p].w, "WalletRejected")
          /\ UNCHANGED <<store, nextId>>
       \/ /\ loc[p].n >= datumThreshold
          /\ LET session == createSession(loc[p].tx, SignTx(loc[p].tx, loc[p].w),
                                          datumThreshold, loc[p].w, nextId, now)
             IN /\ store' = <<session>>
                /\ step' = IF session.status = "ready" THEN "ready" ELSE "pending"
          /\ nextId' = nextId + 1
          /\ timerOn' = TRUE
          /\ last' = Op("initiate", loc[p].w, "ok")
    /\ UNCHANGED <<serverVars, formVars, datumThreshold, now, ticks, graceTimers, clipboard>>

\* ---- hook.cosign -> coSign up to wallet.signTx: getSession and the guards
CoSignBegin(p, w) ==
    /\ pc[p] = "idle"
    /\ LET r == readSession(store, now) IN
       /\ store' = r
       /\ IF r = <<>>
          THEN /\ step' = "error" /\ timerOn' = FALSE
               /\ last' = Op("coSign", w, "NoActiveSession")
               /\ UNCHANGED <<pc, loc>>
          ELSE IF Includes(r[1].collectedSigners, w)
          THEN /\ step' = "error" /\ timerOn' = FALSE
               /\ last' = Op("coSign", w, "AlreadySigned")
               /\ UNCHANGED <<pc, loc>>
          ELSE IF r[1].status # "pending"
          THEN /\ step' = "error" /\ timerOn' = FALSE
               /\ last' = Op("coSign", w, "InvalidState")
               /\ UNCHANGED <<pc, loc>>
          ELSE /\ step' = "cosigning"
               /\ pc' = [pc EXCEPT ![p] = "cosign"]
               /\ loc' = [loc EXCEPT ![p] = [NoLoc EXCEPT !.w = w,
                                                          !.tx = r[1].partialTx]]
               /\ last' = Op("coSignBegin", w, "ok")
               /\ UNCHANGED timerOn
    /\ UNCHANGED <<serverVars, formVars, datumThreshold, now, ticks, nextId, graceTimers, clipboard>>

\* ---- coSign after wallet.signTx: applySignature, then the hook's setState
CoSignFinish(p) ==
    /\ pc[p] = "cosign"
    /\ pc' = [pc EXCEPT ![p] = "idle"]
    /\ loc' = [loc EXCEPT ![p] = NoLoc]
    /\ \/ /\ step' = "error"
          /\ timerOn' = FALSE
          /\ last' = Op("signTx", loc[p].w, "WalletRejected")
          /\ UNCHANGED store
       \/ LET res == applySignature(store, now, loc[p].w, SignTx(loc[p].tx, loc[p].w))
          IN /\ store' = res.store
             /\ last' = Op("applySignature", loc[p].w, res.result)
             /\ IF res.result = "ok"
                THEN /\ step' = IF res.store[1].status = "ready" THEN "ready"
                                ELSE "pending"
                     /\ UNCHANGED timerOn
                ELSE /\ step' = "error"
                     /\ timerOn' = FALSE
    /\ UNCHANGED <<serverVars, formVars, datumThreshold, now, ticks, nextId, graceTimers, clipboard>>

\* ---- hook.submit -> submitUnlock up to wallet.submitTx
SubmitBegin(p) ==
    /\ pc[p] = "idle"
    /\ LET r == readSession(store, now) IN
       /\ store' = r
       /\ IF r = <<>>
          THEN /\ step' = "error" /\ timerOn' = FALSE
               /\ last' = Op("submitUnlock", "-", "NoActiveSession")
               /\ UNCHANGED <<pc, loc>>
          ELSE IF r[1].status # "ready"
          THEN /\ step' = "error" /\ timerOn' = FALSE
               /\ last' = Op("submitUnlock", "-", "ThresholdNotMet")
               /\ UNCHANGED <<pc, loc>>
          ELSE /\ step' = "submitting"
               /\ pc' = [pc EXCEPT ![p] = "submit"]
               /\ loc' = [loc EXCEPT ![p] = [NoLoc EXCEPT !.tx = r[1].partialTx]]
               /\ last' = Op("submitBegin", "-", "ok")
               /\ UNCHANGED timerOn
    /\ UNCHANGED <<serverVars, formVars, datumThreshold, now, ticks, nextId, graceTimers, clipboard>>

\* ---- submitUnlock after wallet.submitTx: markSubmitted, then the hook's
\*      setState and stopTimer
SubmitFinish(p) ==
    /\ pc[p] = "submit"
    /\ pc' = [pc EXCEPT ![p] = "idle"]
    /\ loc' = [loc EXCEPT ![p] = NoLoc]
    /\ timerOn' = FALSE
    /\ \/ /\ step' = "error"
          /\ last' = Op("submitTx", "-", "SubmitRejected")
          /\ UNCHANGED <<store, graceTimers>>
       \/ \E h \in TxHashes :
            LET res == markSubmitted(store, now, h) IN
            /\ store' = res.store
            /\ graceTimers' = IF res.scheduled
                              THEN Append(graceTimers,
                                          [due |-> now + GRACE_MS,
                                           sessionId |-> res.store[1].sessionId])
                              ELSE graceTimers
            /\ step' = "submitted"
            /\ last' = Op("markSubmitted", "-",
                          IF res.scheduled THEN "ok" ELSE "returned")
    /\ UNCHANGED <<serverVars, formVars, datumThreshold, now, ticks, nextId, clipboard>>

\* ---- the delayed clearSession of markSubmitted fires.  The callback is
\*      clearSession itself; the sessionId kept with a timer only records
\*      which session's submission scheduled it.
GraceFire ==
    /\ \E i \in 1..Len(graceTimers) :
         /\ graceTimers[i].due <= now
         /\ graceTimers' = [j \in 1..(Len(graceTimers) - 1) |->
                               IF j < i THEN graceTimers[j] ELSE graceTimers[j + 1]]
         /\ last' = [Op("graceClear", "-", "ok")
                        EXCEPT !.data = <<graceTimers[i]>>]
    /\ store' = <<>>
    /\ UNCHANGED <<serverVars, formVars, datumThreshold, now, ticks, nextId, pc, loc, step, timerOn, clipboard>>

\* ---- the countdown interval fires: syncFromStorage
SyncTick ==
    /\ timerOn
    /\ LET res == syncFromStorage(store, now, step) IN
       /\ store' = res.store
       /\ step' = res.step
       /\ timerOn' = ~res.stop
    /\ last' = Op("syncFromStorage", "-", "ok")
    /\ UNCHANGED <<serverVars, formVars, datumThreshold, now, ticks, nextId, pc, loc, graceTimers, clipboard>>

\* ---- hook.copySharePayload
CopySharePayload ==
    /\ LET payload == exportSessionPayload(store, now) IN
       /\ store' = readSession(store, now)
       /\ clipboard' = IF payload = <<>> THEN clipboard ELSE payload
       /\ last' = Op("exportSessionPayload", "-",
                     IF payload = <<>> THEN "null" ELSE "ok")
    /\ UNCHANGED <<serverVars, formVars, datumThreshold, now, ticks, nextId, pc, loc, step, timerOn, graceTimers>>

\* ---- hook.loadFromPayload: importSessionPayload, syncFromStorage, startTimer
LoadFromPayload(data) ==
    /\ LET res == importSessionPayload(store, now, data) IN
       IF res.result = "ImportFailed"
       THEN /\ store' = res.store
            /\ step' = "error"
            /\ timerOn' = FALSE
       ELSE LET sync == syncFromStorage(res.store, now, step) IN
            /\ store' = sync.store
            /\ step' = sync.step
            /\ timerOn' = TRUE
    /\ last' = [Op("importSessionPayload", "-",
                     importSessionPayload(store, now, data).result)
                  EXCEPT !.data = <<data>>]
    /\ UNCHANGED <<serverVars, formVars, datumThreshold, now, ticks, nextId, pc, loc, graceTimers, clipboard>>

\* the user pastes what was copied
PasteExported ==
    /\ clipboard # <<>>
    /\ LoadFromPayload(clipboard[1])

\* the user pastes a payload written by hand
PasteForged ==
    \E data \in ForgedPayloads : LoadFromPayload(data)

\* ---- hook.reset
Reset ==
    /\ store' = <<>>
    /\ timerOn' = FALSE
    /\ step' = "idle"
    /\ last' = Op("reset", "-", "ok")
    /\ UNCHANGED <<serverVars, formVars, datumThreshold, now, ticks, nextId, pc, loc, graceTimers, clipboard>>

\* At most MaxSessions sessions are started in a run of Spec; a call that
\* is still awaiting counts as started.
Next ==
    \/ ticks < MaxTicks /\ Tick
    \/ /\ nextId + Cardinality(InFlight("initiate")) <= MaxSessions
       /\ \E p \in Procs, w \in Initiators, so \in SigningChoices :
            InitiateBegin(p, w, so)
    \/ \E p \in Procs : InitiateFinish(p)
    \/ \E p \in Procs, w \in Pkhs : CoSignBegin(p, w)
    \/ \E p \in Procs : CoSignFinish(p)
    \/ /\ Len(graceTimers) + Cardinality(InFlight("submit")) < MaxTimers
       /\ \E p \in Procs : SubmitBegin(p)
    \/ \E p \in Procs : SubmitFinish(p)
    \/ GraceFire
    \/ SyncTick
    \/ Reset

\* The callbacks of the hook with one call in flight at a time; at most
\* MaxSessions sessions are started and MaxTimers submissions made.
SingleCalls ==
    \/ /\ nextId <= MaxSessions
       /\ \E w \in Initiators, so \in SigningChoices : InitiateBegin("p1", w, so)
    \/ InitiateFinish("p1")
    \/ \E w \in Pkhs : CoSignBegin("p1", w)
    \/ CoSignFinish("p1")
    \/ Len(graceTimers) < MaxTimers /\ SubmitBegin("p1")
    \/ SubmitFinish("p1")
    \/ GraceFire
    \/ SyncTick
    \/ Reset

NextSingle ==
    \/ ticks < MaxTicks /\ Tick
    \/ SingleCalls

\* One call in flight at a time, and payloads copied and pasted.
NextTransfer ==
    \/ NextSingle
    \/ CopySharePayload
    \/ PasteExported

\* One call in flight at a time, and hand-written payloads pasted.
NextForged ==
    \/ NextSingle
    \/ PasteForged

\* Two initiate calls that overlap: the second may begin while the first
\* awaits the wallet.  Signing goes through one call, nothing is submitted.
NextOverlap ==
    \/ ticks < MaxTicks /\ Tick
    \/ /\ nextId <= MaxSessions
       /\ \E p \in Procs, w \in Initiators, so \in SigningChoices :
            InitiateBegin(p, w, so)
    \/ \E p \in Procs : InitiateFinish(p)
    \/ \E w \in Pkhs : CoSignBegin("p1", w)
    \/ CoSignFinish("p1")
    \/ SyncTick
    \/ Reset

\* One call in flight at a time and a clock that may advance once more, so
\* that a session can pass its expiresAt after it was submitted at expiresAt.
NextGrace ==
    \/ ticks <= MaxTicks /\ Tick
    \/ SingleCalls

\* One call in flight at a time; the caller of buildUnlockTransaction may
\* also pass a signingOwners list that names a key hash outside the datum.
NextBuild ==
    \/ NextSingle
    \/ /\ nextId <= MaxSessions
       /\ \E w \in Initiators, so \in ForeignChoices : InitiateBegin("p1", w, so)

\* One call at a time, where the caller may also pass a signingOwners list
\* with an entry that is not a 56-character key hash.
NextDeclare ==
    \/ NextSingle
    \/ /\ nextId <= MaxSessions
       /\ \E w \in Initiators, so \in MalformedChoices : InitiateBegin("p1", w, so)

\* Two submit calls that overlap: the second may begin while the first
\* awaits wallet.submitTx.  Initiating and signing go through one call.
NextSubmitOverlap ==
    \/ ticks < MaxTicks /\ Tick
    \/ /\ nextId <= MaxSessions
       /\ \E w \in Initiators, so \in SigningChoices : InitiateBegin("p1", w, so)
    \/ InitiateFinish("p1")
    \/ \E w \in Pkhs : CoSignBegin("p1", w)
    \/ CoSignFinish("p1")
    \/ /\ Len(graceTimers) < MaxTimers
       /\ \E p \in Procs : SubmitBegin(p)
    \/ \E p \in Procs : SubmitFinish(p)
    \/ GraceFire
    \/ SyncTick
    \/ Reset

\* A payload's round trip: wallet A starts sessions that declare every
\* owner, one call is in flight at a time, payloads are copied and pasted.
NextRoundTrip ==
    \/ ticks < MaxTicks /\ Tick
    \/ /\ nextId <= MaxSessions
       /\ InitiateBegin("p1", "A", Owners)
    \/ InitiateFinish("p1")
    \/ \E w \in Pkhs : CoSignBegin("p1", w)
    \/ CoSignFinish("p1")
    \/ Len(graceTimers) < MaxTimers /\ SubmitBegin("p1")
    \/ SubmitFinish("p1")
    \/ GraceFire
    \/ SyncTick
    \/ Reset
    \/ CopySharePayload
    \/ PasteExported

\* Imports of hand-written payloads: wallet A starts sessions that declare
\* every owner, one call is in flight at a time, payloads written by hand
\* are pasted between the calls; nothing is submitted.
NextImport ==
    \/ ticks < MaxTicks /\ Tick
    \/ /\ nextId <= MaxSessions
       /\ InitiateBegin("p1", "A", Owners)
    \/ InitiateFinish("p1")
    \/ \E w \in Pkhs : CoSignBegin("p1", w)
    \/ CoSignFinish("p1")
    \/ Reset
    \/ PasteForged

\* The signature-session route on its own: requests arrive in any order, the
\* cleanup interval fires at any time.
NextServer ==
    \/ ticks < MaxTicks /\ Tick
    \/ sessionCount < MaxServerSessions /\ \E r \in RequiredChoices : PostCreate(r)
    \/ \E id \in ServerSessionIds, a \in SignerAddresses \cup {""}, sig \in WitnessSignatures :
          PostSign(id, a, sig)
    \/ \E id \in ServerSessionIds : Get(id)
    \/ \E id \in ServerSessionIds : Delete(id)
    \/ Cleanup

\* The lock form and the lock route: the user edits the form in any order
\* and presses the lock button at any time; requests reach the route.
NextLock ==
    \/ \E i \in 1..MaxOwners, v \in OwnerInputs : HandleOwnerChange(i, v)
    \/ Len(formOwners) < MaxOwners /\ AddOwner
    \/ \E i \in 1..MaxOwners : RemoveOwner(i)
    \/ \E v \in ThresholdInputs : HandleThresholdChange(v)
    \/ \E wallet \in BOOLEAN, amountValid \in BOOLEAN : HandleLockAssets(wallet, amountValid)
    \/ \E o \in RouteOwnerLists, t \in ThresholdInputs, complete \in BOOLEAN :
          LockRoute(o, t, complete)

Spec == Init /\ [][Next]_vars

\* the form and the route run apart from the unlock flow
InitLock == Init /\ datumThreshold = 1

SpecLock == InitLock /\ [][NextLock]_vars

\* the server runs apart from any browser tab: the tab's datum plays no part
InitServer == Init /\ datumThreshold = 1

SpecServer == InitServer /\ [][NextServer]_vars

SpecTransfer == Init /\ [][NextTransfer]_vars

SpecForged == Init /\ [][NextForged]_vars

SpecOverlap == Init /\ [][NextOverlap]_vars

SpecGrace == Init /\ [][NextGrace]_vars

SpecRoundTrip == Init /\ [][NextRoundTrip]_vars

SpecImport == Init /\ [][NextImport]_vars

SpecDeclare == Init /\ [][NextDeclare]_vars

SpecBuild == Init /\ [][NextBuild]_vars

SpecSubmitOverlap == Init /\ [][NextSubmitOverlap]_vars

\* ==================================================================== claims
\* the stored session is live: present and not past its expiresAt
Live == store # <<>> /\ ~isExpired(store[1], now)

\* a call of coSign hands its signature to applySignature in this step
AppliesSignature(p) ==
    pc[p] = "cosign" /\ pc'[p] = "idle" /\ last'.op = "applySignature"

\* C1: for a live pending session, applySignature for a wallet that is not
\* among the signing owners declared at creation fails with SignerNotRequired
\* and leaves the stored session as it was.
C1_UnrequiredSignerRejected ==
    [][\A p \in Procs :
         (AppliesSignature(p) /\ Live /\ store[1].status = "pending"
          /\ loc[p].w \notin store[1].unsignedTx.req
          /\ ~Includes(store[1].collectedSigners, loc[p].w))
         => (last'.result = "SignerNotRequired" /\ store' = store)]_vars

\* C2: while the stored session is neither submitted nor expired, its status
\* is ready exactly when the number of collected signers reaches the threshold.
C2_ReadyIffThresholdMet ==
    (Live /\ store[1].status # "submitted")
    => (store[1].status = "ready"
        <=> Len(store[1].collectedSigners) >= store[1].threshold)

\* C3: partialTx of the stored session carries a witness of every identity in
\* collectedSigners, also when coSign calls overlap.
C3_ArtifactCarriesAllWitnesses ==
    store # <<>> => Range(store[1].collectedSigners) \subseteq store[1].partialTx.wit

\* C4: an applySignature whose signature was made on a partialTx that is no
\* longer the stored one fails with VersionConflict and changes nothing.
C4_StaleWriteConflicts ==
    [][\A p \in Procs :
         (AppliesSignature(p) /\ Live /\ loc[p].tx # store[1].partialTx)
         => (last'.result = "VersionConflict" /\ store' = store)]_vars

\* C5: on one sessionId the status only moves pending -> ready -> submitted.
LegalStatusSteps ==
    {<<"pending", "pending">>, <<"pending", "ready">>, <<"ready", "ready">>,
     <<"ready", "submitted">>, <<"submitted", "submitted">>}

C5_StatusMonotonic ==
    [][(store # <<>> /\ store' # <<>>
        /\ store[1].sessionId = store'[1].sessionId)
       => <<store[1].status, store'[1].status>> \in LegalStatusSteps]_vars

\* C6: markSubmitted on a live session whose status is not ready fails with
\* ThresholdNotMet and leaves the stored session as it was.
C6_MarkSubmittedNeedsReady ==
    [][(last'.op = "markSubmitted" /\ Live /\ store[1].status # "ready")
       => (last'.result = "ThresholdNotMet" /\ store' = store)]_vars

\* C7: once the clock has passed expiresAt, every operation on the session
\* fails (an error or a null result) and the session is purged.
SessionOps ==
    {"coSign", "applySignature", "submitUnlock", "markSubmitted",
     "exportSessionPayload"}

ExpiredFailures == {"SessionExpired", "NoActiveSession", "null"}

C7_ExpiredSessionFailsEveryOperation ==
    [][(store # <<>> /\ isExpired(store[1], now) /\ last'.op \in SessionOps)
       => (last'.result \in ExpiredFailures /\ store' = <<>>)]_vars

\* C8: the first syncFromStorage after the TTL of a pending or ready session
\* has elapsed sets the hook's step to expired.
C8_ExpiryObservable ==
    [][(last'.op = "syncFromStorage" /\ store # <<>> /\ isExpired(store[1], now)
        /\ store[1].status \in {"pending", "ready"})
       => step' = "expired"]_vars

\* C9: for a live pending session, coSign and applySignature for a wallet
\* already in collectedSigners fail with AlreadySigned and leave the stored
\* session as it was.
C9_AlreadySignedRejected ==
    [][(last'.op \in {"coSign", "applySignature"} /\ Live
        /\ store[1].status = "pending"
        /\ Includes(store[1].collectedSigners, last'.who))
       => (last'.result = "AlreadySigned" /\ store' = store)]_vars

\* applySignature itself met a wallet that had signed in the meantime
C9_Witness ==
    /\ last.op = "applySignature"
    /\ last.result = "AlreadySigned"
    /\ Live
    /\ store[1].status = "pending"
    /\ Includes(store[1].collectedSigners, last.who)

\* C10: collectedSigners of the stored session lists no identity twice.
C10_NoDuplicateSigners ==
    store # <<>> =>
        \A i, j \in 1..Len(store[1].collectedSigners) :
            i # j => store[1].collectedSigners[i] # store[1].collectedSigners[j]

\* C11: an accepted applySignature never lowers the number of collected
\* signers and never brings it above the number of signing owners the
\* session's transaction declared at creation.
C11_CollectedCountBounded ==
    [][(last'.op = "applySignature" /\ last'.result = "ok" /\ store # <<>>)
       => (/\ store' # <<>>
           /\ Len(store'[1].collectedSigners) >= Len(store[1].collectedSigners)
           /\ Len(store'[1].collectedSigners)
                <= Cardinality(store'[1].unsignedTx.req))]_vars

\* C12: a session is ready only when every signing owner declared in the
\* transaction has contributed a witness, also when only declared signing
\* owners have signed.
C12_ReadyNeedsEveryDeclaredSigner ==
    (store # <<>> /\ store[1].status = "ready"
     /\ Range(store[1].collectedSigners) \subseteq store[1].unsignedTx.req)
    => store[1].unsignedTx.req \subseteq store[1].partialTx.wit

\* C13: a successful initiate leaves a session whose collectedSigners is the
\* initiator alone, whose partialTx is the transaction signed by the
\* initiator, and whose status is ready when the threshold is 1 and pending
\* otherwise.
C13_CreateResult ==
    (last.op = "initiate" /\ last.result = "ok")
    => /\ store # <<>>
       /\ store[1].collectedSigners = <<last.who>>
       /\ store[1].partialTx = SignTx(store[1].unsignedTx, last.who)
       /\ store[1].status = IF store[1].threshold = 1 THEN "ready" ELSE "pending"

\* C14: initiate stores a session only when the threshold is at least 1 and
\* at most the number of declared signing owners, and the initiator is one
\* of the declared signing owners.
C14_CreateValidatesInput ==
    (last.op = "initiate" /\ last.result = "ok" /\ store # <<>>)
    => /\ store[1].threshold >= 1
       /\ store[1].threshold <= Cardinality(store[1].unsignedTx.req)
       /\ last.who \in store[1].unsignedTx.req

\* C15: initiate never commits a new session while a live session is stored,
\* also when two initiate calls overlap.
C15_CreateNeverReplacesLive ==
    [][(last'.op = "initiate" /\ last'.result = "ok") => ~Live]_vars

\* C16: once a session is submitted, applySignature for any wallet, whether
\* it has already signed or not, fails with InvalidState and leaves the
\* stored session, its status and its txHash as they were.
C16_SubmittedRefusesSignatures ==
    [][(last'.op = "applySignature" /\ Live /\ store[1].status = "submitted")
       => (last'.result = "InvalidState" /\ store' = store)]_vars

\* applySignature refused a wallet that had already signed, on a submitted
\* session
C16_Witness ==
    /\ last.op = "applySignature"
    /\ last.result = "InvalidState"
    /\ Live
    /\ store[1].status = "submitted"
    /\ store[1].txHash # NoTxHash
    /\ Includes(store[1].collectedSigners, last.who)

\* C17: for a live session that is not pending and a wallet already in
\* collectedSigners, coSign and applySignature both fail with InvalidState,
\* not with AlreadySigned.
C17_StatusGuardBeforeSignedGuard ==
    [][(last'.op \in {"coSign", "applySignature"} /\ Live
        /\ store[1].status # "pending"
        /\ Includes(store[1].collectedSigners, last'.who))
       => last'.result = "InvalidState"]_vars

\* the payload handed to importSessionPayload in this step
Imported == last'.data[1]

\* C18: importing a payload whose sessionId is that of the live local
\* session never lowers the local count of collected signers, and a payload
\* with no more collected signers than the local session is a no-op that
\* returns the local session unchanged.
C18_ImportNeverRegresses ==
    [][(last'.op = "importSessionPayload" /\ Live
        /\ store[1].sessionId = Imported.sessionId)
       => LET res == importSessionPayload(store, now, Imported) IN
          /\ res.store # <<>>
          /\ Len(res.store[1].collectedSigners) >= Len(store[1].collectedSigners)
          /\ (Len(Imported.collectedSigners) <= Len(store[1].collectedSigners)
              => (res.store = store /\ last'.result = "existing"))]_vars

\* a payload behind the local session of the same sessionId was imported
C18_Witness ==
    /\ last.op = "importSessionPayload"
    /\ last.result = "existing"
    /\ store # <<>>
    /\ store[1].sessionId = last.data[1].sessionId
    /\ Len(last.data[1].collectedSigners) < Len(store[1].collectedSigners)

\* C19: importing a payload whose sessionId is that of the live local
\* session and which lists more collected signers than the local session
\* leaves the local session with the payload's collectedSigners and
\* partialTx.
C19_ImportAcceptsNewer ==
    [][(last'.op = "importSessionPayload" /\ Live
        /\ store[1].sessionId = Imported.sessionId
        /\ Len(Imported.collectedSigners) > Len(store[1].collectedSigners))
       => LET res == importSessionPayload(store, now, Imported) IN
          /\ res.store # <<>>
          /\ res.store[1].collectedSigners = Imported.collectedSigners
          /\ res.store[1].partialTx = Imported.partialTx]_vars

\* C20: importing an unexpired payload when no live local session has its
\* sessionId stores a session with the payload's sessionId, partialTx,
\* collectedSigners, threshold and expiresAt, and with status ready when the
\* collected signers reach the threshold and pending otherwise.
C20_ImportAdoptsAndRecomputesStatus ==
    [][(last'.op = "importSessionPayload" /\ now <= Imported.expiresAt
        /\ (~Live \/ store[1].sessionId # Imported.sessionId))
       => LET res == importSessionPayload(store, now, Imported) IN
          /\ res.store # <<>>
          /\ res.store[1].sessionId = Imported.sessionId
          /\ res.store[1].partialTx = Imported.partialTx
          /\ res.store[1].collectedSigners = Imported.collectedSigners
          /\ res.store[1].threshold = Imported.threshold
          /\ res.store[1].expiresAt = Imported.expiresAt
          /\ res.store[1].status =
               IF Len(Imported.collectedSigners) >= Imported.threshold
               THEN "ready" ELSE "pending"]_vars

\* C21: importSessionPayload rejects a payload whose expiresAt has passed,
\* whatever the payload lists as collected signers, and leaves the store as
\* it was, be it empty, holding the payload's sessionId or another session.
C21_StalePayloadRejected ==
    [][(last'.op = "importSessionPayload" /\ now > Imported.expiresAt)
       => (last'.result = "ImportFailed" /\ store' = store)]_vars

\* a stale payload was refused while the store held another, live session
C21_Witness ==
    /\ last.op = "importSessionPayload"
    /\ last.result = "ImportFailed"
    /\ now > last.data[1].expiresAt
    /\ Live
    /\ store[1].sessionId # last.data[1].sessionId

\* the five fields a payload shares with the session it was taken from
SameProgress(payload, session) ==
    /\ session.sessionId = payload.sessionId
    /\ session.partialTx = payload.partialTx
    /\ session.collectedSigners = payload.collectedSigners
    /\ session.threshold = payload.threshold
    /\ session.expiresAt = payload.expiresAt

\* C22: a payload copied from a live session has that session's sessionId,
\* partialTx, collectedSigners, threshold and expiresAt; importing it where
\* no live session has its sessionId stores a session with these five
\* values; and no step changes the expiresAt of a stored session.
C22_ExpiresAtPropagatedUnchanged ==
    [][/\ (last'.op = "exportSessionPayload" /\ last'.result = "ok")
          => SameProgress(clipboard'[1], store[1])
       /\ (last'.op = "importSessionPayload" /\ now <= Imported.expiresAt
           /\ (~Live \/ store[1].sessionId # Imported.sessionId))
          => LET res == importSessionPayload(store, now, Imported) IN
             res.store # <<>> /\ SameProgress(Imported, res.store[1])
       /\ (store # <<>> /\ store' # <<>>
           /\ store'[1].sessionId = store[1].sessionId)
          => store'[1].expiresAt = store[1].expiresAt]_vars

\* a copied payload was imported later than the session was created and the
\* stored session kept the expiresAt set at creation
C22_Witness ==
    /\ last.op = "importSessionPayload"
    /\ last.result = "ok"
    /\ store # <<>>
    /\ store[1].createdAt > 0
    /\ SameProgress(last.data[1], store[1])
    /\ store[1].expiresAt = SESSION_TTL_MS

\* C23: an exported payload has the fields sessionId, partialTx,
\* collectedSigners, threshold, expiresAt and version, and no others.
C23_PayloadFields ==
    clipboard # <<>> =>
        DOMAIN clipboard[1] = {"sessionId", "partialTx", "collectedSigners",
                               "threshold", "expiresAt", "version"}

\* the step is a call of coSign, submitUnlock or importSessionPayload that
\* failed
FailedCall ==
    \/ last'.op \in {"coSign", "signTx", "submitUnlock", "submitTx"}
    \/ last'.op = "applySignature" /\ last'.result # "ok"
    \/ last'.op = "importSessionPayload" /\ last'.result = "ImportFailed"

\* C24: a call of coSign, submitUnlock or importSessionPayload that fails
\* leaves the stored session exactly as it was; the only other outcome is
\* that a session found expired is removed whole.
C24_FailuresAllOrNothing ==
    [][FailedCall
       => \/ store' = store
          \/ store # <<>> /\ isExpired(store[1], now) /\ store' = <<>>]_vars

\* the wallet's submitTx rejected the transaction of a live ready session
C24_Witness ==
    /\ last.op = "submitTx"
    /\ last.result = "SubmitRejected"
    /\ Live
    /\ store[1].status = "ready"

\* C25: sessionId, threshold and unsignedTx of a stored session are never
\* changed by a step that keeps the session, and unsignedTx carries no
\* witness.
C25_TemplateFixed ==
    [][/\ (store # <<>> /\ store' # <<>>
           /\ store'[1].sessionId = store[1].sessionId)
          => /\ store'[1].threshold = store[1].threshold
             /\ store'[1].unsignedTx = store[1].unsignedTx
       /\ store' # <<>> => store'[1].unsignedTx.wit = {}]_vars

\* C26: the stored session's expiresAt is its createdAt plus the TTL.
C26_ExpiresAtIsCreatedAtPlusTtl ==
    store # <<>> => store[1].expiresAt = store[1].createdAt + SESSION_TTL_MS

\* C27: a submitted session whose grace timer has not yet come due has its
\* txHash set and is still returned by readSession.
C27_ReadableDuringGrace ==
    (store # <<>> /\ store[1].status = "submitted"
     /\ \E i \in 1..Len(graceTimers) :
          /\ graceTimers[i].sessionId = store[1].sessionId
          /\ now < graceTimers[i].due)
    => (store[1].txHash # NoTxHash /\ readSession(store, now) # <<>>)

\* C28: a session is created only for a signingOwners list that is a subset
\* of the datum's owners and has at least threshold entries.
C28_SigningOwnersAreOwners ==
    (last.op = "initiate" /\ last.result = "ok" /\ store # <<>>)
    => /\ store[1].unsignedTx.req \subseteq Owners
       /\ Cardinality(store[1].unsignedTx.req) >= store[1].threshold

\* C29: the delayed clearSession scheduled by the submission of one session
\* leaves the store as it is when the store holds another session.
C29_GraceClearsOnlySubmitted ==
    [][(last'.op = "graceClear" /\ store # <<>>
        /\ store[1].sessionId # last'.data[1].sessionId)
       => store' = store]_vars

\* C30: no two calls of submitUnlock await wallet.submitTx with the same
\* transaction at once.
C30_SubmittedAtMostOnce ==
    \A p, q \in Procs :
        (p # q /\ pc[p] = "submit" /\ pc[q] = "submit")
        => loc[p].tx # loc[q].tx

\* C31: while a submission is in flight (step "submitting") the once-a-second
\* syncFromStorage tick never changes the step away from "submitting", and
\* while a co-sign is in flight the tick leaves "cosigning" alone (the stored
\* session still has time left in both cases).
C31_TickKeepsInFlightStep ==
    [][(last'.op = "syncFromStorage" /\ store # <<>> /\ getRemainingMs(store[1], now) > 0) =>
          /\ (step = "submitting" /\ \E p \in Procs : pc[p] = "submit")
                => step' = "submitting"
          /\ (step = "cosigning" /\ \E p \in Procs : pc[p] = "cosign")
                => step' = "cosigning"]_vars

\* C32: importSessionPayload never discards the progress of a live local
\* session whose sessionId differs from the payload's: the stored session is
\* left as it was.
C32_ImportKeepsOtherLiveSession ==
    [][(last'.op = "importSessionPayload" /\ Live
          /\ store[1].sessionId # Imported.sessionId)
       => importSessionPayload(store, now, Imported).store = store]_vars

\* C33: a failed co-sign or submit does not strand a live session in the hook:
\* the countdown keeps tracking the stored session (the interval that brings
\* the step back to "pending"/"ready" is still running) without a reset.
C33_FailureKeepsTracking ==
    ((\/ last.op \in {"coSign", "submitUnlock", "submitTx"}
      \/ last.op = "applySignature" /\ last.result # "ok")
     /\ Live)
    => timerOn

\* no clearSession scheduled by markSubmitted is overdue
NoOverdueTimer == \A i \in 1..Len(graceTimers) : now <= graceTimers[i].due

\* C34: once the step is "submitted", later syncFromStorage calls (the interval
\* tick, or the one loadFromPayload makes after finding the same session
\* stored) keep the step at "submitted", also when the session is gone.
C34_SubmittedSurvivesSync ==
    [][(/\ step = "submitted"
        /\ NoOverdueTimer
        /\ \/ last'.op = "syncFromStorage"
           \/ last'.op = "importSessionPayload" /\ last'.result = "existing")
       => step' = "submitted"]_vars

\* C35: whenever buildUnlockTransaction succeeds, the number of required-signer
\* hashes it declared on the transaction is at least the threshold: no entry
\* of signingOwners is dropped from the declaration.
C35_DeclaredSignersReachThreshold ==
    [][(\E p \in Procs : pc[p] = "initiate" /\ last'.op = "initiate"
                        /\ last'.who = loc[p].w /\ last'.result = "ok")
       => Cardinality(store'[1].unsignedTx.req) >= datumThreshold]_vars

\* the signer addresses of a signature list
SignersOf(signatures) == {signatures[i].signerAddress : i \in 1..Len(signatures)}

\* C36: in the signature-session store a 'sign' from a signerAddress that has
\* already signed replaces that signer's signature where it stands; no
\* signature list holds two entries of one signerAddress, so that
\* signaturesCollected counts the distinct signers and isComplete is true
\* exactly when that count is at least requiredSignatures.
C36_OneSignaturePerSigner ==
    [][/\ \A id \in DOMAIN signatureSessions' :
             LET sigs == signatureSessions'[id].signatures IN
             \A i, j \in 1..Len(sigs) :
                 sigs[i].signerAddress = sigs[j].signerAddress => i = j
       /\ (last'.op = "sign" /\ last'.result = "200") =>
             LET id == last'.data[1].sessionId
                 before == signatureSessions[id].signatures
                 after == signatureSessions'[id].signatures
             IN \A i \in 1..Len(before) :
                    before[i].signerAddress = last'.who
                    => /\ Len(after) = Len(before)
                       /\ after[i].signerAddress = last'.who
                       /\ \A j \in 1..Len(before) :
                              j # i => after[j] = before[j]
       /\ (last'.op \in {"sign", "get"} /\ last'.result = "200") =>
             LET body == last'.data[1]
                 session == signatureSessions'[body.sessionId]
             IN /\ body.signaturesCollected = Cardinality(SignersOf(session.signatures))
                /\ body.isComplete <=>
                      (Cardinality(SignersOf(session.signatures))
                          >= session.requiredSignatures)]_vars

\* the signer whose entry stands first of two has signed again
C36_Witness ==
    /\ last.op = "sign" /\ last.result = "200"
    /\ LET sigs == signatureSessions[last.data[1].sessionId].signatures IN
       /\ Len(sigs) = 2
       /\ sigs[1].signerAddress = last.who
       /\ last.data[1].isComplete

\* C37: in the signature-session store a session whose expiresAt is before
\* the current time is never returned or modified: a 'sign' or a GET that
\* names it answers 410 and deletes it, the periodic cleanup deletes the
\* sessions whose expiresAt is before the current time and no other, and a
\* session id that is no longer in the store answers 404.
C37_ExpiredSessionsAreDeleted ==
    [][/\ \A id \in DOMAIN signatureSessions :
             signatureSessions[id].expiresAt < now =>
                /\ (last'.op \in {"sign", "get"} /\ last'.data[2] = id
                    /\ last'.result # "400")
                       => (last'.result = "410" /\ id \notin DOMAIN signatureSessions')
                /\ id \in DOMAIN signatureSessions'
                       => signatureSessions'[id] = signatureSessions[id]
       /\ last'.op = "cleanup" =>
             /\ DOMAIN signatureSessions' =
                   {id \in DOMAIN signatureSessions :
                        ~(signatureSessions[id].expiresAt < now)}
             /\ \A id \in DOMAIN signatureSessions' :
                   signatureSessions'[id] = signatureSessions[id]
       /\ (last'.op \in {"sign", "get", "delete"} /\ last'.result # "400"
           /\ last'.data[2] \notin DOMAIN signatureSessions)
             => (last'.result = "404" /\ signatureSessions' = signatureSessions)]_vars

\* a request named an expired session, which is gone after the answer
C37_Witness ==
    /\ last.op \in {"sign", "get"}
    /\ last.result = "410"
    /\ last.data[2] \notin DOMAIN signatureSessions
    /\ sessionCount >= last.data[2]

\* what a lock transaction may be built from: at least one owner, none of
\* them blank when they come from the form, and 1 <= threshold <= owners
ValidLock(request) ==
    /\ Len(request.owners) >= 1
    /\ request.threshold >= 1
    /\ request.threshold <= Len(request.owners)

\* C38: a lock transaction is built only for a threshold t and an owner list
\* with 1 <= t <= number of owners: the lock form (counting the non-blank
\* owners) and the lock route both answer with an error and build nothing
\* when the list is empty, t < 1 or t exceeds the number of owners, whatever
\* add-owner, remove-owner, edit-owner and change-threshold steps came before.
C38_LockOnlyWithValidThreshold ==
    /\ (last.op = "handleLockAssets" /\ last.result = "built") =>
          /\ formThreshold >= 1
          /\ formThreshold <= validOwnersCount(formOwners)
          /\ last.data[1].threshold = formThreshold
          /\ Len(last.data[1].owners) = validOwnersCount(formOwners)
          /\ \A i \in 1..Len(last.data[1].owners) : ~IsBlank(last.data[1].owners[i])
    /\ (last.op = "handleLockAssets" /\ ~ValidLock([owners |-> validOwners(formOwners),
                                                    threshold |-> formThreshold]))
          => last.result \in {"NoWallet", "NoOwners", "BadThreshold"}
    /\ (last.op = "lockRoute" /\ last.result = "built") => ValidLock(last.data[1])
    /\ (last.op = "lockRoute" /\ ~ValidLock(last.data[1])) => last.result = "400"

\* the lock button is pressed on an edited form whose threshold exceeds the
\* number of non-blank owners
C38_Witness ==
    /\ last.op = "handleLockAssets"
    /\ last.result = "NoOwners"
    /\ Len(formOwners) = 2
    /\ formOwners[1] = " "
    /\ formThreshold > validOwnersCount(formOwners)
====
